---- MODULE Spec2Model ----
(***************************************************************************)
(* Model of the mutual-fund analyser: the nearest-date lookup, the monthly *)
(* contribution loop, the historical calculator (PastAnalysis.result) and  *)
(* calculateSipReturns, the projections, the trailing returns of the chart *)
(* and the application's loading of fund details.                          *)
(*                                                                         *)
(* A JS Date is modelled by its timestamp, counted in ticks of             *)
(* 1/TicksPerDay day from local midnight of 1 January MinYear.  JS numbers *)
(* are modelled as exact rationals <<n, d>> (d > 0, lowest terms).         *)
(***************************************************************************)
EXTENDS Integers, Sequences, FiniteSets, TLC

VARIABLES
    navData,   \* the NavData[] handed to the components (details.data)
    now,       \* the timestamp the `new Date()` calls of a computation read
    call,      \* the latest computation: its function, arguments and result
    selectedFund,      \* App: scheme code of the selected fund, or null
    fundDetails,       \* App: the details held, or null
    isLoadingDetails,  \* App
    error,             \* App: the error shown, or null
    requests,          \* the loadDetails calls waiting for getFundDetails
    requestCount,      \* the number of loadDetails calls made so far
    selectedYear,      \* PastAnalysis
    selectedMonth      \* PastAnalysis

\* the state of the application and of the mounted calculator
appVars ==
    <<selectedFund, fundDetails, isLoadingDetails, error, requests, requestCount,
      selectedYear, selectedMonth>>

vars == <<navData, now, call, appVars>>

-----------------------------------------------------------------------------
(* Bounds of the model *)

MinYear == 2023
YearSpan == 2
TicksPerDay == 3
MaxLen == 2

MaxYear == MinYear + YearSpan

-----------------------------------------------------------------------------
(* Calendar arithmetic of the JS Date object (local time, no DST) *)

IsLeap(y) == (y % 4 = 0 /\ y % 100 # 0) \/ y % 400 = 0

DaysInMonth(y, m) ==
    IF m = 2 THEN (IF IsLeap(y) THEN 29 ELSE 28)
    ELSE IF m \in {4, 6, 9, 11} THEN 30 ELSE 31

DaysInYear(y) == IF IsLeap(y) THEN 366 ELSE 365

\* the first calendar year of the tables: the year the longest chart period
\* reaches back to
FirstYear == MinYear - 3

CalYears == FirstYear .. (MaxYear + 2)

RECURSIVE YearStartRec(_)
YearStartRec(y) ==
    IF y = MinYear THEN 0
    ELSE IF y > MinYear THEN YearStartRec(y - 1) + DaysInYear(y - 1)
    ELSE YearStartRec(y + 1) - DaysInYear(y)

\* day number of 1 January of each calendar year, 1 January MinYear being day 0
YearStartTab == [y \in CalYears |-> YearStartRec(y)]

RECURSIVE MonthOffset(_, _)
MonthOffset(y, m) == IF m = 1 THEN 0 ELSE MonthOffset(y, m - 1) + DaysInMonth(y, m - 1)

\* day number of the first day of each month
MonthStartTab == [y \in CalYears |-> [m \in 1..12 |-> YearStartTab[y] + MonthOffset(y, m)]]

MonthStart(y, m) == MonthStartTab[y][m]

\* new Date(year, monthIndex, day) at time-of-day tod: a monthIndex outside
\* 0..11 carries into the year, a day past the month's end carries into the
\* following month(s).
MkDate(year, monthIndex, day, tod) ==
    LET y == year + (monthIndex \div 12)
        m == (monthIndex % 12) + 1
    IN  (MonthStart(y, m) + day - 1) * TicksPerDay + tod

CalDays == YearStartTab[FirstYear] .. (YearStartTab[MaxYear + 2] - 1)

\* the civil date <<year, month, day>> of each day number
CivilTab ==
    [n \in CalDays |->
        LET y == CHOOSE yy \in FirstYear..(MaxYear + 1) :
                    YearStartTab[yy] <= n /\ n < YearStartTab[yy + 1]
            m == CHOOSE mm \in 1..12 :
                    MonthStartTab[y][mm] <= n /\ n < MonthStartTab[y][mm] + DaysInMonth(y, mm)
        IN  <<y, m, n - MonthStartTab[y][m] + 1>>]

DayOf(t) == t \div TicksPerDay
TodOf(t) == t % TicksPerDay

GetFullYear(t) == CivilTab[DayOf(t)][1]

\* Date.getMonth(): 0-based
GetMonth(t) == CivilTab[DayOf(t)][2] - 1

GetDate(t) == CivilTab[DayOf(t)][3]

\* d.setMonth(monthIndex): same year, day-of-month and time of day
SetMonth(t, monthIndex) == MkDate(GetFullYear(t), monthIndex, GetDate(t), TodOf(t))

\* d.setFullYear(year)
SetFullYear(t, year) == MkDate(year, GetMonth(t), GetDate(t), TodOf(t))

Abs(x) == IF x < 0 THEN -x ELSE x

-----------------------------------------------------------------------------
(* Exact rational arithmetic standing for JS numbers *)

RECURSIVE Gcd(_, _)
Gcd(a, b) == IF b = 0 THEN a ELSE Gcd(b, a % b)

\* the not-a-number value: 0 / 0, and the result of every operation on it
NaN == <<0, 0>>
IsNaN(a) == a = NaN

Norm(n, d) ==
    IF n = 0 /\ d = 0 THEN NaN
    ELSE LET g == Gcd(Abs(n), Abs(d))
             s == IF d < 0 THEN -1 ELSE 1
         IN  <<(s * n) \div g, (s * d) \div g>>

R(n) == <<n, 1>>
Zero == R(0)
RAdd(a, b) == Norm(a[1] * b[2] + b[1] * a[2], a[2] * b[2])
RSub(a, b) == Norm(a[1] * b[2] - b[1] * a[2], a[2] * b[2])
RMul(a, b) == Norm(a[1] * b[1], a[2] * b[2])
RDiv(a, b) == Norm(a[1] * b[2], a[2] * b[1])
RLt(a, b) == a[1] * b[2] < b[1] * a[2]
RLe(a, b) == ~IsNaN(a) /\ ~IsNaN(b) /\ a[1] * b[2] <= b[1] * a[2]
RGt(a, b) == RLt(b, a)
RGe(a, b) == RLe(b, a)

\* a^k by squaring; the half power is evaluated before it is multiplied
RECURSIVE RPow(_, _)
RPow(a, k) ==
    IF k = 0 THEN R(1)
    ELSE IF k < 0 THEN RDiv(R(1), RPow(a, -k))
    ELSE LET h == RPow(a, k \div 2)
         IN  IF IsNaN(h) THEN NaN
             ELSE IF k % 2 = 0 THEN RMul(h, h)
             ELSE RMul(a, RMul(h, h))

-----------------------------------------------------------------------------
(* NavData records: date is the DD-MM-YYYY string split at '-', nav the    *)
(* decimal string, given by the number it denotes                          *)

Null == [null |-> TRUE]

\* the useState initial values of App and of PastAnalysis
AppInit ==
    /\ selectedFund = Null
    /\ fundDetails = Null
    /\ isLoadingDetails = FALSE
    /\ error = Null
    /\ requests = {}
    /\ requestCount = 0
    /\ selectedYear = 0
    /\ selectedMonth = 1

\* a date string without numeric parts, such as '' or 'N/A'
BadDate == <<>>

\* a nav string that parseFloat cannot read, such as 'N/A'; it is given a
\* code of its own, which no record of the model uses as a number
NotANumberText == -1

\* getTime() of an Invalid Date: not a number, so that every comparison with
\* it is false; it is given the tick before the first day of the calendar,
\* which no date of the model reaches
InvalidTime == YearStartTab[FirstYear] * TicksPerDay - 1

\* parseNavDate
parseNavDate(dateStr) ==
    IF dateStr = BadDate THEN InvalidTime
    ELSE MkDate(dateStr[3], dateStr[2] - 1, dateStr[1], 0)

\* parseFloat of a nav string
parseFloat(nav) == IF nav = NotANumberText THEN NaN ELSE R(nav)

RecDates == { <<31, 12, MinYear>>, <<2, 1, MinYear + 1>>, <<15, 3, MaxYear>> }

NavValues == {10, 20}

Records == [date : RecDates, nav : NavValues]

RECURSIVE SeqsUpTo(_, _)
SeqsUpTo(S, n) ==
    IF n = 0 THEN {<<>>}
    ELSE LET shorter == SeqsUpTo(S, n - 1)
         IN  shorter \cup {Append(s, x) : s \in {q \in shorter : Len(q) = n - 1}, x \in S}

\* [...navHistory].sort((a, b) => parseNavDate(a.date) - parseNavDate(b.date)):
\* a stable sort, oldest first
RECURSIVE InsertByDate(_, _)
InsertByDate(sorted, e) ==
    IF sorted = <<>> THEN <<e>>
    ELSE IF parseNavDate(sorted[Len(sorted)].date) <= parseNavDate(e.date)
         THEN Append(sorted, e)
         ELSE Append(InsertByDate(SubSeq(sorted, 1, Len(sorted) - 1), e),
                     sorted[Len(sorted)])

RECURSIVE SortByDate(_)
SortByDate(s) ==
    IF s = <<>> THEN <<>>
    ELSE InsertByDate(SortByDate(SubSeq(s, 1, Len(s) - 1)), s[Len(s)])

-----------------------------------------------------------------------------
(* findNearestNav of SipCalculator.tsx: a full scan, strict improvement *)

\* one iteration of the for loop; st = [nearest, inf, minDiff], inf standing
\* for minDiff = Infinity
NearestStep(st, entry, targetTime) ==
    LET entryDate == parseNavDate(entry.date)
        diff == Abs(entryDate - targetTime)
    IN  IF entryDate # InvalidTime /\ (st.inf \/ diff < st.minDiff)
        THEN [nearest |-> entry, inf |-> FALSE, minDiff |-> diff]
        ELSE st

RECURSIVE NearestScan(_, _, _, _)
NearestScan(data, targetTime, i, st) ==
    IF i > Len(data) THEN st.nearest
    ELSE NearestScan(data, targetTime, i + 1, NearestStep(st, data[i], targetTime))

NearestInit == [nearest |-> Null, inf |-> TRUE, minDiff |-> 0]

findNearestNav(data, targetDate) == NearestScan(data, targetDate, 1, NearestInit)

(* findNearestNav of the mfApi service: the same scan, left at the first   *)
(* entry dated after the target                                            *)

\* variant: leaves the loop at an entry after the target before recording it
RECURSIVE NearestScanExitBeforeUpdate(_, _, _, _)
NearestScanExitBeforeUpdate(sortedNav, targetTime, i, st) ==
    IF i > Len(sortedNav) THEN st.nearest
    ELSE IF parseNavDate(sortedNav[i].date) > targetTime
         THEN st.nearest
         ELSE NearestScanExitBeforeUpdate(sortedNav, targetTime, i + 1,
                                          NearestStep(st, sortedNav[i], targetTime))

RECURSIVE NearestScanExit(_, _, _, _)
NearestScanExit(sortedNav, targetTime, i, st) ==
    IF i > Len(sortedNav) THEN st.nearest
    ELSE LET st2 == NearestStep(st, sortedNav[i], targetTime)
         IN  IF parseNavDate(sortedNav[i].date) > targetTime /\ st2.nearest # Null
             THEN st2.nearest
             ELSE NearestScanExit(sortedNav, targetTime, i + 1, st2)

findNearestNavApi(sortedNav, targetDate) ==
    NearestScanExit(sortedNav, targetDate, 1, NearestInit)

-----------------------------------------------------------------------------
(* PastAnalysis.result of SipCalculator.tsx *)

RECURSIVE SortedSeq(_)
SortedSeq(S) ==
    IF S = {} THEN <<>>
    ELSE LET m == CHOOSE x \in S : \A y \in S : x <= y
         IN  <<m>> \o SortedSeq(S \ {m})

Hundred == R(100)

\* 1 + stepUpPercent / 100
StepFactor(pct) == RAdd(R(1), RDiv(R(pct), Hundred))

\* variant: simple instead of compound growth
SteppedAmountLinear(amt, pct, yearsDiff) ==
    RMul(R(amt), RAdd(R(1), RMul(RDiv(R(pct), Hundred), R(yearsDiff))))

\* amount * Math.pow(1 + stepUpPercent / 100, yearsDiff)
SteppedAmount(amt, pct, yearsDiff) == RMul(R(amt), RPow(StepFactor(pct), yearsDiff))

\* variant: the year's entry is reset on every contribution
YearEntryReset(yearlyData, year) == [invested |-> Zero, units |-> Zero]

\* yearlyData.get(year), after the has/set of a missing year
YearEntry(yearlyData, year) ==
    IF year \in DOMAIN yearlyData THEN yearlyData[year]
    ELSE [invested |-> Zero, units |-> Zero]

\* one pass of the while loop of the SIP / step-up branch.  events is the
\* trace of the loop (date, amount and record of every pass); the code keeps
\* no such list.
PastLoopStep(st, data, type, amt, pct, startYear) ==
    LET currentYear == GetFullYear(st.currentDate)
        yearsDiff == currentYear - startYear
        stepped == type = "stepup" /\ yearsDiff > st.yearCounter
        currentAmount == IF stepped THEN SteppedAmount(amt, pct, yearsDiff)
                         ELSE st.currentAmount
        yearCounter == IF stepped THEN yearsDiff ELSE st.yearCounter
        navEntry == findNearestNav(data, st.currentDate)
        nav == parseFloat(navEntry.nav)
        unitsBought == RDiv(currentAmount, nav)
        yd == YearEntry(st.yearlyData, currentYear)
        bought == navEntry # Null
    IN  [currentDate |-> SetMonth(st.currentDate, GetMonth(st.currentDate) + 1),
         currentAmount |-> currentAmount,
         yearCounter |-> yearCounter,
         totalUnits |-> IF bought THEN RAdd(st.totalUnits, unitsBought) ELSE st.totalUnits,
         totalInvested |-> IF bought THEN RAdd(st.totalInvested, currentAmount)
                           ELSE st.totalInvested,
         yearlyData |->
            IF bought
            THEN [y \in DOMAIN st.yearlyData \cup {currentYear} |->
                    IF y = currentYear
                    THEN [invested |-> RAdd(yd.invested, currentAmount),
                          units |-> RAdd(yd.units, unitsBought)]
                    ELSE st.yearlyData[y]]
            ELSE st.yearlyData,
         events |-> Append(st.events, [date |-> st.currentDate,
                                       amount |-> currentAmount,
                                       entry |-> navEntry])]

RECURSIVE PastLoop(_, _, _, _, _, _, _)
PastLoop(st, data, type, amt, pct, startYear, endDate) ==
    IF st.currentDate <= endDate
    THEN PastLoop(PastLoopStep(st, data, type, amt, pct, startYear),
                  data, type, amt, pct, startYear, endDate)
    ELSE st

\* variant: the current year too is valued at the record nearest to its
\* 31 December
EndYearNavEveryYear(data, yr, nowYear, currentNav) ==
    LET navEntry == findNearestNav(data, MkDate(yr, 11, 31, 0))
    IN  IF navEntry # Null THEN parseFloat(navEntry.nav) ELSE currentNav

\* NAV at the end of year yr: the record nearest to 31 December, or the
\* current NAV for the current year
EndYearNav(data, yr, nowYear, currentNav) ==
    IF yr < nowYear
    THEN LET navEntry == findNearestNav(data, MkDate(yr, 11, 31, 0))
         IN  IF navEntry # Null THEN parseFloat(navEntry.nav) ELSE currentNav
    ELSE currentNav

\* cumulativeInvested > 0 ? (yearReturns / cumulativeInvested) * 100 : 0
GuardedPercent(returns, invested) ==
    IF RGt(invested, Zero) THEN RMul(RDiv(returns, invested), Hundred) ELSE Zero

RECURSIVE PastBreakdown(_, _, _, _, _, _, _, _)
PastBreakdown(sortedYears, i, yearlyData, cumInvested, cumUnits, data, nowYear, currentNav) ==
    IF i > Len(sortedYears) THEN <<>>
    ELSE LET yr == sortedYears[i]
             yd == yearlyData[yr]
             cumulativeInvested == RAdd(cumInvested, yd.invested)
             cumulativeUnits == RAdd(cumUnits, yd.units)
             endYearNav == EndYearNav(data, yr, nowYear, currentNav)
             value == RMul(cumulativeUnits, endYearNav)
             yearReturns == RSub(value, cumulativeInvested)
         IN  << [year |-> yr,
                 invested |-> yd.invested,
                 cumulativeInvested |-> cumulativeInvested,
                 units |-> yd.units,
                 cumulativeUnits |-> cumulativeUnits,
                 value |-> value,
                 returns |-> yearReturns,
                 returnsPercent |-> GuardedPercent(yearReturns, cumulativeInvested),
                 endYearNav |-> endYearNav] >>
             \o PastBreakdown(sortedYears, i + 1, yearlyData, cumulativeInvested,
                              cumulativeUnits, data, nowYear, currentNav)

\* the SIP / step-up branch
PastSchedule(data, type, amt, pct, startDate, endDate, currentNav) ==
    LET st == PastLoop([currentDate |-> startDate,
                        currentAmount |-> R(amt),
                        yearCounter |-> 0,
                        totalUnits |-> Zero,
                        totalInvested |-> Zero,
                        yearlyData |-> <<>>,
                        events |-> <<>>],
                       data, type, amt, pct, GetFullYear(startDate), endDate)
        currentValue == RMul(st.totalUnits, currentNav)
        returns == RSub(currentValue, st.totalInvested)
    IN  [totalInvested |-> st.totalInvested,
         currentValue |-> currentValue,
         totalUnits |-> st.totalUnits,
         returns |-> returns,
         returnsPercentage |-> GuardedPercent(returns, st.totalInvested),
         isProfit |-> RGe(returns, Zero),
         startDate |-> startDate,
         yearlyBreakdown |->
            PastBreakdown(SortedSeq(DOMAIN st.yearlyData), 1, st.yearlyData, Zero, Zero,
                          data, GetFullYear(endDate), currentNav),
         currentNav |-> currentNav,
         events |-> st.events]

\* variant: the amount and the units are entered in every year's slice
RECURSIVE OneTimeBreakdownEveryYear(_, _, _, _, _, _, _, _)
OneTimeBreakdownEveryYear(yr, startYear, endYear, nowYear, data, amt, units, currentNav) ==
    IF yr > endYear THEN <<>>
    ELSE LET endYearNav == EndYearNav(data, yr, nowYear, currentNav)
             yearValue == RMul(units, endYearNav)
             yearReturns == RSub(yearValue, R(amt))
         IN  << [year |-> yr,
                 invested |-> R(amt),
                 cumulativeInvested |-> R(amt),
                 units |-> units,
                 cumulativeUnits |-> units,
                 value |-> yearValue,
                 returns |-> yearReturns,
                 returnsPercent |-> RMul(RDiv(yearReturns, R(amt)), Hundred),
                 endYearNav |-> endYearNav] >>
             \o OneTimeBreakdownEveryYear(yr + 1, startYear, endYear, nowYear, data, amt,
                                          units, currentNav)

RECURSIVE OneTimeBreakdown(_, _, _, _, _, _, _, _)
OneTimeBreakdown(yr, startYear, endYear, nowYear, data, amt, units, currentNav) ==
    IF yr > endYear THEN <<>>
    ELSE LET endYearNav == EndYearNav(data, yr, nowYear, currentNav)
             yearValue == RMul(units, endYearNav)
             yearReturns == RSub(yearValue, R(amt))
         IN  << [year |-> yr,
                 invested |-> IF yr = startYear THEN R(amt) ELSE Zero,
                 cumulativeInvested |-> R(amt),
                 units |-> IF yr = startYear THEN units ELSE Zero,
                 cumulativeUnits |-> units,
                 value |-> yearValue,
                 returns |-> yearReturns,
                 returnsPercent |-> RMul(RDiv(yearReturns, R(amt)), Hundred),
                 endYearNav |-> endYearNav] >>
             \o OneTimeBreakdown(yr + 1, startYear, endYear, nowYear, data, amt, units,
                                 currentNav)

\* the one-time branch
PastOneTime(data, amt, startDate, endDate, currentNav) ==
    LET purchaseNav == findNearestNav(data, startDate)
        nav == parseFloat(purchaseNav.nav)
        units == RDiv(R(amt), nav)
        currentValue == RMul(units, currentNav)
        returns == RSub(currentValue, R(amt))
    IN  IF purchaseNav = Null THEN Null
        ELSE [totalInvested |-> R(amt),
              currentValue |-> currentValue,
              totalUnits |-> units,
              returns |-> returns,
              returnsPercentage |-> RMul(RDiv(returns, R(amt)), Hundred),
              isProfit |-> RGe(returns, Zero),
              buyNav |-> nav,
              currentNav |-> currentNav,
              startDate |-> startDate,
              yearlyBreakdown |->
                 OneTimeBreakdown(GetFullYear(startDate), GetFullYear(startDate),
                                  GetFullYear(endDate), GetFullYear(endDate),
                                  data, amt, units, currentNav)]

\* parseFloat(navData[0]?.nav || '0')
FirstNav(data) == IF Len(data) > 0 THEN parseFloat(data[1].nav) ELSE Zero

\* variant: no early return for an empty series
PastResultNoEmptyGuard(data, type, amt, year, month, pct, today) ==
    IF amt = 0 \/ year = 0 THEN Null
    ELSE LET startDate == MkDate(year, month - 1, 1, 0)
             currentNav == FirstNav(data)
         IN  IF type \in {"sip", "stepup"}
             THEN PastSchedule(data, type, amt, pct, startDate, today, currentNav)
             ELSE PastOneTime(data, amt, startDate, today, currentNav)

\* variant: an empty series yields a zero-filled record
PastResultZeroOnEmpty(data, type, amt, year, month, pct, today) ==
    IF amt = 0 \/ year = 0 THEN Null
    ELSE IF Len(data) = 0
    THEN [totalInvested |-> Zero, currentValue |-> Zero, totalUnits |-> Zero,
          returns |-> Zero, returnsPercentage |-> Zero, isProfit |-> TRUE,
          startDate |-> MkDate(year, month - 1, 1, 0), yearlyBreakdown |-> <<>>,
          currentNav |-> Zero]
    ELSE LET startDate == MkDate(year, month - 1, 1, 0)
             currentNav == FirstNav(data)
         IN  IF type \in {"sip", "stepup"}
             THEN PastSchedule(data, type, amt, pct, startDate, today, currentNav)
             ELSE PastOneTime(data, amt, startDate, today, currentNav)

\* the useMemo body: selectedFromDate is '' while selectedYear is 0, and
\* otherwise "YYYY-MM", split back into year and month
PastResult(data, type, amt, year, month, pct, today) ==
    IF amt = 0 \/ year = 0 \/ Len(data) = 0 THEN Null
    ELSE LET startDate == MkDate(year, month - 1, 1, 0)
             currentNav == FirstNav(data)
         IN  IF type \in {"sip", "stepup"}
             THEN PastSchedule(data, type, amt, pct, startDate, today, currentNav)
             ELSE PastOneTime(data, amt, startDate, today, currentNav)

-----------------------------------------------------------------------------
(* calculateSipReturns of the mfApi service *)

ApiLoopStep(st, sortedNav, monthlyAmount) ==
    LET navEntry == findNearestNavApi(sortedNav, st.currentDate)
        nav == parseFloat(navEntry.nav)
        units == RDiv(R(monthlyAmount), nav)
        bought == navEntry # Null
    IN  [currentDate |-> SetMonth(st.currentDate, GetMonth(st.currentDate) + 1),
         totalUnits |-> IF bought THEN RAdd(st.totalUnits, units) ELSE st.totalUnits,
         totalInvested |-> IF bought THEN RAdd(st.totalInvested, R(monthlyAmount))
                           ELSE st.totalInvested,
         events |-> Append(st.events, [date |-> st.currentDate,
                                       amount |-> R(monthlyAmount),
                                       entry |-> navEntry])]

\* variant: the loop is entered once before the end date is looked at
RECURSIVE ApiLoopEnteredFirst(_, _, _, _)
ApiLoopEnteredFirst(st, sortedNav, monthlyAmount, endDate) ==
    IF st.currentDate <= endDate \/ st.events = <<>>
    THEN ApiLoopEnteredFirst(ApiLoopStep(st, sortedNav, monthlyAmount), sortedNav,
                             monthlyAmount, endDate)
    ELSE st

RECURSIVE ApiLoop(_, _, _, _)
ApiLoop(st, sortedNav, monthlyAmount, endDate) ==
    IF st.currentDate <= endDate
    THEN ApiLoop(ApiLoopStep(st, sortedNav, monthlyAmount), sortedNav, monthlyAmount, endDate)
    ELSE st

calculateSipReturns(navHistory, monthlyAmount, startDate, endDate) ==
    LET sortedNav == SortByDate(navHistory)
        st == ApiLoop([currentDate |-> startDate, totalUnits |-> Zero,
                       totalInvested |-> Zero, events |-> <<>>],
                      sortedNav, monthlyAmount, endDate)
        latestNav == FirstNav(navHistory)
        currentValue == RMul(st.totalUnits, latestNav)
        returns == RSub(currentValue, st.totalInvested)
    IN  [totalInvested |-> st.totalInvested,
         currentValue |-> currentValue,
         totalUnits |-> st.totalUnits,
         returns |-> returns,
         returnsPercentage |-> GuardedPercent(returns, st.totalInvested),
         isProfit |-> RGe(returns, Zero),
         latestNav |-> latestNav,
         events |-> st.events]

-----------------------------------------------------------------------------
(* Inputs and the specification: a series and a clock reading are drawn,   *)
(* then one of the functions is applied to arguments drawn from small sets *)
(* (the functions keep no state from one call to the next)                 *)

NowSet == { MkDate(MaxYear, 2, 20, 1), MkDate(MaxYear, 3, 1, 0) }

AllSeries == SeqsUpTo(Records, MaxLen)

InvestmentTypes == {"sip", "stepup", "onetime"}
Amounts == {1000, -1000, 0}
StepUps == {10, 50}

\* selectedYear / selectedMonth: unselected (0, 1), or a year-month of a record
StartYearMonths == { <<0, 1>> } \cup { <<d[3], d[2]>> : d \in RecDates }

LookupFirstDay == DayOf(MkDate(MinYear, 11, 30, 0))
LookupLastDay == DayOf(MkDate(MinYear + 1, 0, 3, 0))

LookupTargets ==
    { d * TicksPerDay + tod : d \in LookupFirstDay..LookupLastDay, tod \in 0..(TicksPerDay - 1) }
        \cup { MkDate(MinYear, 0, 1, 0), MkDate(MaxYear, 11, 31, 0) }

SipStarts ==
    { MkDate(y, m, d, 0) : y \in {MinYear, MinYear + 1}, m \in {0, 11}, d \in {1, 29, 30, 31} }
        \cup { MkDate(MaxYear, 2, 1, 0) }

SipEnds == { now, MkDate(MinYear + 1, 5, 30, 0) }

Init ==
    /\ navData \in AllSeries
    /\ now \in NowSet
    /\ call = Null
    /\ AppInit

\* findNearestNav(navData, target) as PastAnalysis calls it (the series as
\* supplied) and as calculateSipReturns calls it (the sorted copy)
Lookup(target) ==
    /\ call = Null
    /\ call' = [fn |-> "findNearestNav",
                target |-> target,
                sip |-> findNearestNav(navData, target),
                api |-> findNearestNavApi(SortByDate(navData), target)]
    /\ UNCHANGED <<navData, now, appVars>>

\* a render of PastAnalysis: the memoised result for the component's state
PastAnalysis(type, amt, ym, pct) ==
    /\ call = Null
    /\ call' = [fn |-> "PastAnalysis",
                investmentType |-> type,
                amount |-> amt,
                selectedYear |-> ym[1],
                selectedMonth |-> ym[2],
                stepUpPercent |-> pct,
                result |-> PastResult(navData, type, amt, ym[1], ym[2], pct, now)]
    /\ UNCHANGED <<navData, now, appVars>>

CalculateSipReturns(monthlyAmount, startDate, endDate) ==
    /\ call = Null
    /\ call' = [fn |-> "calculateSipReturns",
                monthlyAmount |-> monthlyAmount,
                startDate |-> startDate,
                endDate |-> endDate,
                result |-> calculateSipReturns(navData, monthlyAmount, startDate, endDate)]
    /\ UNCHANGED <<navData, now, appVars>>

Next ==
    \/ \E target \in LookupTargets : Lookup(target)
    \/ \E type \in InvestmentTypes, amt \in Amounts, ym \in StartYearMonths :
          \E pct \in (IF type = "stepup" THEN StepUps ELSE {10}) :
              PastAnalysis(type, amt, ym, pct)
    \/ \E startDate \in SipStarts, endDate \in SipEnds :
          CalculateSipReturns(1000, startDate, endDate)

Spec == Init /\ [][Next]_vars

(* The calculator over a series that holds one malformed record *)

MalformedRecords ==
    [date : {BadDate}, nav : NavValues] \cup [date : RecDates, nav : {NotANumberText}]

IsMalformed(rec) == rec.date = BadDate \/ rec.nav = NotANumberText

\* the series of at most MaxLen records of which exactly one is malformed
MalformedSeries ==
    { s \in SeqsUpTo(Records \cup MalformedRecords, MaxLen) :
        Cardinality({ i \in 1..Len(s) : IsMalformed(s[i]) }) = 1 }

InitMalformed ==
    /\ navData \in MalformedSeries
    /\ now \in NowSet
    /\ call = Null
    /\ AppInit

NextMalformed ==
    \E type \in InvestmentTypes, ym \in StartYearMonths, amt \in {1000} :
        PastAnalysis(type, amt, ym, 10)

SpecMalformed == InitMalformed /\ [][NextMalformed]_vars

-----------------------------------------------------------------------------
(* FutureProjection.result of SipCalculator.tsx *)

MonthsPerYear == 12

\* expectedReturn / 100 / 12
MonthlyRate(expectedReturn) == RDiv(RDiv(R(expectedReturn), Hundred), R(MonthsPerYear))

\* variant: a contribution grows for one month less
MonthsToGrowLate(monthsRemaining, month) == monthsRemaining - month - 1

\* monthsRemaining - month
MonthsToGrow(monthsRemaining, month) == monthsRemaining - month

\* the inner for loop of the step-up branch; st holds the variables of the
\* two loops: futureValue, totalInvested, currentAmount, year and month.
\* contributions is the trace of the loop (amount and monthsToGrow of every
\* pass); the code keeps no such list.
RECURSIVE StepUpMonths(_, _, _)
StepUpMonths(st, monthsRemaining, monthlyRate) ==
    IF st.month >= MonthsPerYear THEN st
    ELSE LET monthValue == RMul(st.currentAmount,
                                RPow(RAdd(R(1), monthlyRate),
                                     MonthsToGrow(monthsRemaining, st.month)))
         IN  StepUpMonths([st EXCEPT !.futureValue = RAdd(@, monthValue),
                                     !.totalInvested = RAdd(@, st.currentAmount),
                                     !.month = @ + 1,
                                     !.contributions =
                                        Append(@, [amount |-> st.currentAmount,
                                                   monthsToGrow |->
                                                      MonthsToGrow(monthsRemaining,
                                                                   st.month)])],
                          monthsRemaining, monthlyRate)

\* variant: the amount is raised before the year's contributions
RECURSIVE StepUpYearsRaisedFirst(_, _, _, _)
StepUpYearsRaisedFirst(st, years, monthlyRate, stepUpPercent) ==
    IF st.year >= years THEN st
    ELSE LET done == StepUpMonths([st EXCEPT !.month = 0,
                                             !.currentAmount =
                                                RMul(@, StepFactor(stepUpPercent))],
                                  (years - st.year) * MonthsPerYear, monthlyRate)
         IN  StepUpYearsRaisedFirst([done EXCEPT !.year = @ + 1],
                                    years, monthlyRate, stepUpPercent)

\* the outer for loop of the step-up branch
RECURSIVE StepUpYears(_, _, _, _)
StepUpYears(st, years, monthlyRate, stepUpPercent) ==
    IF st.year >= years THEN st
    ELSE LET done == StepUpMonths([st EXCEPT !.month = 0],
                                  (years - st.year) * MonthsPerYear, monthlyRate)
         IN  StepUpYears([done EXCEPT !.currentAmount = RMul(@, StepFactor(stepUpPercent)),
                                      !.year = @ + 1],
                         years, monthlyRate, stepUpPercent)

\* variant: contributions at the end of each month, without the last factor
FutureSipOrdinary(amount, years, expectedReturn) ==
    LET monthlyRate == MonthlyRate(expectedReturn)
        months == years * MonthsPerYear
        futureValue ==
            RMul(R(amount),
                 RDiv(RSub(RPow(RAdd(R(1), monthlyRate), months), R(1)), monthlyRate))
        totalInvested == RMul(R(amount), R(months))
        returns == RSub(futureValue, totalInvested)
    IN  [totalInvested |-> totalInvested,
         futureValue |-> futureValue,
         returns |-> returns,
         returnsPercentage |-> RMul(RDiv(returns, totalInvested), Hundred),
         isProfit |-> RGe(returns, Zero)]

FutureSip(amount, years, expectedReturn) ==
    LET monthlyRate == MonthlyRate(expectedReturn)
        months == years * MonthsPerYear
        futureValue ==
            RMul(RMul(R(amount),
                      RDiv(RSub(RPow(RAdd(R(1), monthlyRate), months), R(1)), monthlyRate)),
                 RAdd(R(1), monthlyRate))
        totalInvested == RMul(R(amount), R(months))
        returns == RSub(futureValue, totalInvested)
    IN  [totalInvested |-> totalInvested,
         futureValue |-> futureValue,
         returns |-> returns,
         returnsPercentage |-> RMul(RDiv(returns, totalInvested), Hundred),
         isProfit |-> RGe(returns, Zero)]

FutureStepUp(amount, years, expectedReturn, stepUpPercent) ==
    LET st == StepUpYears([futureValue |-> Zero, totalInvested |-> Zero,
                           currentAmount |-> R(amount), year |-> 0, month |-> 0,
                           contributions |-> <<>>],
                          years, MonthlyRate(expectedReturn), stepUpPercent)
        returns == RSub(st.futureValue, st.totalInvested)
    IN  [totalInvested |-> st.totalInvested,
         futureValue |-> st.futureValue,
         returns |-> returns,
         returnsPercentage |-> RMul(RDiv(returns, st.totalInvested), Hundred),
         isProfit |-> RGe(returns, Zero),
         contributions |-> st.contributions]

FutureOneTime(amount, years, expectedReturn) ==
    LET monthlyRate == MonthlyRate(expectedReturn)
        months == years * MonthsPerYear
        futureValue == RMul(R(amount), RPow(RAdd(R(1), monthlyRate), months))
        returns == RSub(futureValue, R(amount))
    IN  [totalInvested |-> R(amount),
         futureValue |-> futureValue,
         returns |-> returns,
         returnsPercentage |-> RMul(RDiv(returns, R(amount)), Hundred),
         isProfit |-> RGe(returns, Zero)]

\* the useMemo body
FutureResult(type, amount, years, expectedReturn, stepUpPercent) ==
    IF amount = 0 \/ years = 0 \/ expectedReturn = 0 THEN Null
    ELSE IF type = "sip" THEN FutureSip(amount, years, expectedReturn)
    ELSE IF type = "stepup" THEN FutureStepUp(amount, years, expectedReturn, stepUpPercent)
    ELSE FutureOneTime(amount, years, expectedReturn)

(* The same formulas on fractions of natural numbers of any size, for the  *)
(* inputs whose compound factor does not fit the integers of the rational  *)
(* arithmetic above.  A natural number is the sequence of its digits in    *)
(* base BigBase, lowest first, without leading zeros; a fraction is        *)
(* [neg, num, den], not reduced.                                           *)

BigBase == 1000

RECURSIVE BigOf(_)
BigOf(n) == IF n = 0 THEN <<>> ELSE <<n % BigBase>> \o BigOf(n \div BigBase)

\* digits lo..hi of x * m + carry, and the carry out of digit hi; the range
\* is halved rather than walked, the carry passing from the lower half to
\* the upper one
RECURSIVE BigMulRange(_, _, _, _, _)
BigMulRange(x, lo, hi, m, carry) ==
    IF lo = hi
    THEN LET t == x[lo] * m + carry
         IN  [out |-> <<t % BigBase>>, carry |-> t \div BigBase]
    ELSE LET mid == (lo + hi) \div 2
             lower == BigMulRange(x, lo, mid, m, carry)
             upper == BigMulRange(x, mid + 1, hi, m, lower.carry)
         IN  [out |-> lower.out \o upper.out, carry |-> upper.carry]

\* x * m for a natural number m below 2^31 / BigBase
BigMulSmall(x, m) ==
    IF m = 0 \/ x = <<>> THEN <<>>
    ELSE LET r == BigMulRange(x, 1, Len(x), m, 0) IN r.out \o BigOf(r.carry)

\* acc * m^k: the first half of the k multiplications, then the others
RECURSIVE BigTimes(_, _, _)
BigTimes(acc, m, k) ==
    IF k = 0 THEN acc
    ELSE IF k = 1 THEN BigMulSmall(acc, m)
    ELSE LET half == BigTimes(acc, m, k \div 2)
         IN  IF half = <<>> THEN <<>> ELSE BigTimes(half, m, k - k \div 2)

BigPow(m, k) == BigTimes(BigOf(1), m, k)

RECURSIVE BigLessFrom(_, _, _)
BigLessFrom(x, y, i) ==
    IF i = 0 THEN FALSE
    ELSE IF x[i] # y[i] THEN x[i] < y[i]
    ELSE BigLessFrom(x, y, i - 1)

BigLess(x, y) == IF Len(x) # Len(y) THEN Len(x) < Len(y) ELSE BigLessFrom(x, y, Len(x))

RECURSIVE BigStrip(_)
BigStrip(x) ==
    IF x = <<>> THEN x
    ELSE IF x[Len(x)] = 0 THEN BigStrip(SubSeq(x, 1, Len(x) - 1))
    ELSE x

\* digits lo..hi of x - y - borrow, and the borrow out of digit hi
RECURSIVE BigSubRange(_, _, _, _, _)
BigSubRange(x, y, lo, hi, borrow) ==
    IF lo = hi
    THEN LET d == x[lo] - (IF lo <= Len(y) THEN y[lo] ELSE 0) - borrow
         IN  IF d < 0 THEN [out |-> <<d + BigBase>>, borrow |-> 1]
             ELSE [out |-> <<d>>, borrow |-> 0]
    ELSE LET mid == (lo + hi) \div 2
             lower == BigSubRange(x, y, lo, mid, borrow)
             upper == BigSubRange(x, y, mid + 1, hi, lower.borrow)
         IN  [out |-> lower.out \o upper.out, borrow |-> upper.borrow]

\* x - y for x >= y
BigSub(x, y) == IF x = <<>> THEN <<>> ELSE BigStrip(BigSubRange(x, y, 1, Len(x), 0).out)

\* w * a / b for natural numbers a, b > 0
WScale(w, a, b) ==
    [neg |-> w.neg, num |-> BigMulSmall(w.num, a), den |-> BigMulSmall(w.den, b)]

\* w - n for w >= 0 and a natural number n
WSubInt(w, n) ==
    LET t == BigMulSmall(w.den, n)
    IN  IF BigLess(w.num, t)
        THEN [neg |-> TRUE, num |-> BigSub(t, w.num), den |-> w.den]
        ELSE [neg |-> FALSE, num |-> BigSub(w.num, t), den |-> w.den]

\* Math.pow(1 + monthlyRate, months), monthlyRate = expectedReturn / 100 / 12
WGrowth(expectedReturn, months) ==
    LET g == Gcd(100 * MonthsPerYear + expectedReturn, 100 * MonthsPerYear)
    IN  [neg |-> FALSE,
         num |-> BigPow((100 * MonthsPerYear + expectedReturn) \div g, months),
         den |-> BigPow((100 * MonthsPerYear) \div g, months)]

FutureSipWide(amount, years, expectedReturn) ==
    LET months == years * MonthsPerYear
        futureValue ==
            WScale(WScale(WScale(WSubInt(WGrowth(expectedReturn, months), 1),
                                 100 * MonthsPerYear, expectedReturn),
                          amount, 1),
                   100 * MonthsPerYear + expectedReturn, 100 * MonthsPerYear)
        totalInvested == amount * months
        returns == WSubInt(futureValue, totalInvested)
    IN  [totalInvested |-> R(totalInvested),
         futureValue |-> futureValue,
         returns |-> returns,
         returnsPercentage |-> WScale(returns, 100, totalInvested),
         isProfit |-> ~returns.neg]

FutureOneTimeWide(amount, years, expectedReturn) ==
    LET months == years * MonthsPerYear
        futureValue == WScale(WGrowth(expectedReturn, months), amount, 1)
        returns == WSubInt(futureValue, amount)
    IN  [totalInvested |-> R(amount),
         futureValue |-> futureValue,
         returns |-> returns,
         returnsPercentage |-> WScale(returns, 100, amount),
         isProfit |-> ~returns.neg]

\* the useMemo body for the regular and the lump-sum mode, amount, years and
\* expectedReturn being natural numbers
FutureResultWide(type, amount, years, expectedReturn) ==
    IF amount = 0 \/ years = 0 \/ expectedReturn = 0 THEN Null
    ELSE IF type = "sip" THEN FutureSipWide(amount, years, expectedReturn)
    ELSE FutureOneTimeWide(amount, years, expectedReturn)

(* Inputs of the projection.  The numbers typed into the fields are not    *)
(* confined to the ranges the inputs declare.  The pairs of years and      *)
(* expected return are those for which the compound factor stays within    *)
(* the integers of the arithmetic above: a monthly rate of 1 or 2, and     *)
(* the rate -1, for which the factor is 0 after any number of months.      *)

ProjAmounts == {1, 2, -1, 0}
ProjStepUps == {0, 10, 150}
ProjYearsReturns ==
    { <<-1, 1200>>, <<0, 1200>>, <<1, 0>>, <<2, 0>>, <<1, 1200>>, <<2, 1200>>, <<1, 2400>> }

\* more years than the field declares, for the two closed formulas
ProjLongRun == { <<41, -1200>> }

\* the component's first render (5000 a month, 10 years, 12 %) and a lump
\* sum of 100000 over 5 years at 10 %
ProjWideInputs == { <<"sip", 5000, 10, 12>>, <<"onetime", 100000, 5, 10>> }

InitProjection ==
    /\ navData = <<>>
    /\ now \in NowSet
    /\ call = Null
    /\ AppInit

\* a render of FutureProjection: the memoised result for the component's state
FutureProjection(type, amount, years, expectedReturn, stepUpPercent) ==
    /\ call = Null
    /\ call' = [fn |-> "FutureProjection",
                investmentType |-> type,
                amount |-> amount,
                years |-> years,
                expectedReturn |-> expectedReturn,
                stepUpPercent |-> stepUpPercent,
                result |-> FutureResult(type, amount, years, expectedReturn, stepUpPercent)]
    /\ UNCHANGED <<navData, now, appVars>>

\* the same render for the inputs computed on fractions of any size
FutureProjectionWide(type, amount, years, expectedReturn) ==
    /\ call = Null
    /\ call' = [fn |-> "FutureProjectionWide",
                investmentType |-> type,
                amount |-> amount,
                years |-> years,
                expectedReturn |-> expectedReturn,
                result |-> FutureResultWide(type, amount, years, expectedReturn)]
    /\ UNCHANGED <<navData, now, appVars>>

NextProjection ==
    \/ \E type \in InvestmentTypes, amount \in ProjAmounts, pct \in ProjStepUps :
          \E yr \in (IF type = "stepup" THEN ProjYearsReturns
                     ELSE ProjYearsReturns \cup ProjLongRun) :
              FutureProjection(type, amount, yr[1], yr[2], pct)
    \/ \E in \in ProjWideInputs : FutureProjectionWide(in[1], in[2], in[3], in[4])

SpecProjection == InitProjection /\ [][NextProjection]_vars

-----------------------------------------------------------------------------
(* periodReturns of NavChart.tsx *)

\* TIME_PERIODS; the entry of ALL, whose months is null, has no months field
TIME_PERIODS ==
    { [key |-> "1M", months |-> 1], [key |-> "3M", months |-> 3],
      [key |-> "6M", months |-> 6], [key |-> "1Y", months |-> 12],
      [key |-> "3Y", months |-> 36], [key |-> "5Y", months |-> 60],
      [key |-> "ALL"] }

PeriodKeys == { period.key : period \in TIME_PERIODS }

\* the record whose nav becomes startNav: the last one for ALL, otherwise the
\* one closest to the cutoff date (the loop is that of findNearestNav)
PeriodStart(data, period, today) ==
    IF "months" \notin DOMAIN period THEN data[Len(data)]
    ELSE findNearestNav(data, SetMonth(today, GetMonth(today) - period.months))

\* variant: the change is computed whatever the starting value
TrailingReturnUnguarded(latestNav, startNav) ==
    LET change == RMul(RDiv(RSub(latestNav, startNav), startNav), Hundred)
    IN  [change |-> change, isPositive |-> RGe(change, Zero), startNav |-> startNav]

\* the entry of results for a startNav that is not null; startNav is kept
\* with it, the code keeps change and isPositive only
TrailingReturn(latestNav, startNav) ==
    IF RGt(startNav, Zero)
    THEN LET change == RMul(RDiv(RSub(latestNav, startNav), startNav), Hundred)
         IN  [change |-> change, isPositive |-> RGe(change, Zero), startNav |-> startNav]
    ELSE Null

periodReturns(data, today) ==
    IF Len(data) = 0 THEN [k \in PeriodKeys |-> Null]
    ELSE LET latestNav == parseFloat(data[1].nav)
         IN  [k \in PeriodKeys |->
                LET period == CHOOSE q \in TIME_PERIODS : q.key = k
                    start == PeriodStart(data, period, today)
                IN  IF start = Null THEN Null
                    ELSE TrailingReturn(latestNav, parseFloat(start.nav))]

ChartDates ==
    { <<1, 1, MinYear - 3>>, <<1, 1, MinYear>>, <<28, 2, MaxYear>>, <<3, 3, MaxYear>>,
      <<15, 3, MaxYear>> }
ChartNavValues == {0, 10, 20}
ChartRecords == [date : ChartDates, nav : ChartNavValues]
ChartSeries == SeqsUpTo(ChartRecords, MaxLen)

\* the clock readings of the chart: those of NowSet and the 31st of a month
ChartNowSet == NowSet \cup { MkDate(MaxYear, 2, 31, 0) }

InitChart ==
    /\ navData \in ChartSeries
    /\ now \in ChartNowSet
    /\ call = Null
    /\ AppInit

\* a render of NavChart: the memoised periodReturns for the data prop
PeriodReturns ==
    /\ call = Null
    /\ call' = [fn |-> "periodReturns", result |-> periodReturns(navData, now)]
    /\ UNCHANGED <<navData, now, appVars>>

NextChart == PeriodReturns

SpecChart == InitChart /\ [][NextChart]_vars

-----------------------------------------------------------------------------
(* Properties of the nearest-date lookup *)

IsLookup == call # Null /\ call.fn = "findNearestNav"

Entries(data) == { data[i] : i \in 1..Len(data) }
Dist(entry, target) == Abs(parseNavDate(entry.date) - target)

\* r is at minimum distance from target, and no record at the same distance
\* has an earlier date
NearestEarliest(r, data, target) ==
    /\ r \in Entries(data)
    /\ \A e \in Entries(data) :
          /\ Dist(r, target) <= Dist(e, target)
          /\ Dist(e, target) = Dist(r, target)
                => parseNavDate(r.date) <= parseNavDate(e.date)

\* C1: for every non-empty series and every target date, both lookups return
\* a record at minimum distance from the target, the one with the earlier
\* date when two dates are equally distant, whatever the input order.
C1_NearestTieEarlier ==
    (IsLookup /\ navData # <<>>) =>
        /\ NearestEarliest(call.sip, navData, call.target)
        /\ NearestEarliest(call.api, navData, call.target)

MinDate(data) ==
    CHOOSE t \in { parseNavDate(e.date) : e \in Entries(data) } :
        \A e \in Entries(data) : t <= parseNavDate(e.date)
MaxDate(data) ==
    CHOOSE t \in { parseNavDate(e.date) : e \in Entries(data) } :
        \A e \in Entries(data) : t >= parseNavDate(e.date)

EndpointOk(r, data, target) ==
    /\ (r = Null) <=> (data = <<>>)
    /\ (data # <<>> /\ target < MinDate(data)) => parseNavDate(r.date) = MinDate(data)
    /\ (data # <<>> /\ target > MaxDate(data)) => parseNavDate(r.date) = MaxDate(data)

\* C2: the lookup returns none exactly when the series is empty; a target
\* before every record yields the earliest record and a target after every
\* record the latest, in the full scan and in the early-exit scan.
C2_NoneIffEmpty ==
    IsLookup =>
        /\ EndpointOk(call.sip, navData, call.target)
        /\ EndpointOk(call.api, navData, call.target)

\* a target before both records of a newest-first series with two dates:
\* the early-exit scan stops at the first record of the sorted copy
C2_Witness ==
    /\ IsLookup
    /\ Len(navData) = 2
    /\ parseNavDate(navData[1].date) > parseNavDate(navData[2].date)
    /\ call.target < MinDate(navData)
    /\ call.api = navData[2]
    /\ call.sip = navData[2]

-----------------------------------------------------------------------------
(* Properties of the historical simulation *)

IsPast == call # Null /\ call.fn = "PastAnalysis" /\ call.result # Null
IsPastSchedule == IsPast /\ call.investmentType \in {"sip", "stepup"}
IsApi == call # Null /\ call.fn = "calculateSipReturns"
IsSchedule == IsPastSchedule \/ IsApi

\* values of the records carrying the highest date of the series
LatestValues(data) ==
    { parseFloat(e.nav) : e \in { x \in Entries(data) : parseNavDate(x.date) = MaxDate(data) } }

\* C3: the current valuation used by the historical simulation is the value
\* of the record with the highest date, for every ordering of the input.
C3_CurrentIsLatest ==
    /\ IsPast => call.result.currentNav \in LatestValues(navData)
    /\ (IsApi /\ navData # <<>>) => call.result.latestNav \in LatestValues(navData)

ScheduleStart == IF IsApi THEN call.startDate ELSE call.result.startDate
ScheduleEnd == IF IsApi THEN call.endDate ELSE now
ScheduleEvents == call.result.events

MonthIdx(t) == GetFullYear(t) * 12 + GetMonth(t)

Min(a, b) == IF a <= b THEN a ELSE b

\* the contribution date of calendar month k: the start's day-of-month,
\* clipped to the length of the month
ClippedDate(start, k) ==
    MkDate(k \div 12, k % 12, Min(GetDate(start), DaysInMonth(k \div 12, (k % 12) + 1)),
           TodOf(start))

DueMonths(start, end) ==
    { k \in MonthIdx(start)..MonthIdx(end) : ClippedDate(start, k) <= end }

\* C4: the monthly loop makes exactly one contribution for each calendar
\* month from the start month through the last month whose contribution
\* date is not after the end date: none skipped, none doubled.
C4_OnePerMonth ==
    IsSchedule =>
        /\ Len(ScheduleEvents) = Cardinality(DueMonths(ScheduleStart, ScheduleEnd))
        /\ \A i \in 1..Len(ScheduleEvents) :
              MonthIdx(ScheduleEvents[i].date) = MonthIdx(ScheduleStart) + i - 1

\* C5: every contribution date has the start date's day-of-month, or the
\* last day of its month when the month is shorter.
C5_SameDayClipped ==
    IsSchedule =>
        \A i \in 1..Len(ScheduleEvents) :
            LET t == ScheduleEvents[i].date
            IN  GetDate(t) = Min(GetDate(ScheduleStart),
                                 DaysInMonth(GetFullYear(t), GetMonth(t) + 1))


\* the amount the step-up rule prescribes k calendar years after the start
CompoundAmount(base, pct, k) == RMul(R(base), RPow(RDiv(R(100 + pct), R(100)), k))

\* C6: in step-up mode the amount contributed in a month k calendar years
\* after the start year is baseAmount * (1 + stepUpPercent/100)^k, the same
\* for every contribution of one calendar year.
C6_StepUpByCalendarYear ==
    (IsPast /\ call.investmentType = "stepup") =>
        LET ev == call.result.events
            startYear == GetFullYear(call.result.startDate)
        IN  /\ \A i \in 1..Len(ev) :
                  ev[i].amount = CompoundAmount(call.amount, call.stepUpPercent,
                                                GetFullYear(ev[i].date) - startYear)
            /\ \A i, j \in 1..Len(ev) :
                  GetFullYear(ev[i].date) = GetFullYear(ev[j].date)
                      => ev[i].amount = ev[j].amount

\* a step-up run over three calendar years with three different amounts
C6_Witness ==
    /\ IsPast
    /\ call.investmentType = "stepup"
    /\ call.amount > 0
    /\ LET ev == call.result.events
       IN  /\ Len(ev) > 13
           /\ GetFullYear(ev[Len(ev)].date) = GetFullYear(ev[1].date) + 2
           /\ RLt(ev[1].amount, ev[2].amount)
           /\ RLt(ev[2].amount, ev[Len(ev)].amount)

RECURSIVE SumInvested(_, _)
SumInvested(slices, i) ==
    IF i > Len(slices) THEN Zero ELSE RAdd(slices[i].invested, SumInvested(slices, i + 1))

\* C7: in schedule mode with a positive amount the slices' investedThisYear
\* add up to totalInvested, the slices are in strictly ascending year order
\* and the cumulative fields never decrease from one slice to the next.
C7_SlicesAddUp ==
    (IsPastSchedule /\ call.amount > 0) =>
        LET sl == call.result.yearlyBreakdown
        IN  /\ SumInvested(sl, 1) = call.result.totalInvested
            /\ \A i \in 1..(Len(sl) - 1) :
                  /\ sl[i].year < sl[i + 1].year
                  /\ RLe(sl[i].cumulativeInvested, sl[i + 1].cumulativeInvested)
                  /\ RLe(sl[i].cumulativeUnits, sl[i + 1].cumulativeUnits)

\* a step-up run with a positive amount and three year slices
C7_Witness ==
    /\ IsPastSchedule
    /\ call.investmentType = "stepup"
    /\ call.amount > 0
    /\ Len(call.result.yearlyBreakdown) = 3
    /\ RGt(call.result.totalInvested, R(call.amount))

\* a schedule-mode run of the calculator with a positive amount and a
\* selected start month
IsPastScheduleCall ==
    /\ call # Null
    /\ call.fn = "PastAnalysis"
    /\ call.investmentType \in {"sip", "stepup"}
    /\ call.amount > 0
    /\ call.selectedYear # 0

IsOneTimeCall ==
    /\ call # Null
    /\ call.fn = "PastAnalysis"
    /\ call.investmentType = "onetime"
    /\ call.amount > 0
    /\ call.selectedYear # 0

AllZero(r) ==
    /\ r # Null
    /\ r.totalInvested = Zero
    /\ r.totalUnits = Zero
    /\ r.currentValue = Zero
    /\ r.returns = Zero
    /\ r.returnsPercentage = Zero
    /\ r.isProfit = TRUE

ScheduleOutcome(type) ==
    PastResult(navData, type, call.amount, call.selectedYear, call.selectedMonth,
               call.stepUpPercent, now)

NearestValues(data, target) ==
    { parseFloat(e.nav) :
        e \in { x \in Entries(data) : \A y \in Entries(data) : Dist(x, target) <= Dist(y, target) } }

\* C10: every year slice uses the current valuation for the current year
\* and otherwise the value of the record nearest to 31 December; its value
\* is cumulativeUnits times that valuation, its returns value minus
\* cumulativeInvested, its percentage returns / cumulativeInvested * 100,
\* or 0 when cumulativeInvested is 0.
C10_YearEndValuation ==
    IsPast =>
        \A i \in 1..Len(call.result.yearlyBreakdown) :
            LET s == call.result.yearlyBreakdown[i]
            IN  /\ s.year = GetFullYear(now) => s.endYearNav = call.result.currentNav
                /\ s.year # GetFullYear(now) =>
                      s.endYearNav \in NearestValues(navData, MkDate(s.year, 11, 31, 0))
                /\ s.value = RMul(s.cumulativeUnits, s.endYearNav)
                /\ s.returns = RSub(s.value, s.cumulativeInvested)
                /\ s.returnsPercent =
                      IF s.cumulativeInvested = Zero THEN Zero
                      ELSE RMul(RDiv(s.returns, s.cumulativeInvested), Hundred)

-----------------------------------------------------------------------------
(* Properties of the lump-sum simulation and of the result record *)

IsOneTimeResult == IsPast /\ call.investmentType = "onetime"

\* C11: a successful lump-sum simulation buys amount / value of the record
\* nearest to the purchase date; its breakdown has one slice per calendar
\* year from the purchase year through the current year, ascending, each
\* with cumulativeUnits equal to the units and cumulativeInvested equal to
\* the amount, and only the purchase-year slice has non-zero invested and
\* units of the year.
C11_LumpSumSlices ==
    IsOneTimeResult =>
        LET r == call.result
            bd == r.yearlyBreakdown
            purchaseDate == MkDate(call.selectedYear, call.selectedMonth - 1, 1, 0)
        IN  /\ r.totalUnits \in { RDiv(R(call.amount), v) : v \in NearestValues(navData, purchaseDate) }
            /\ Len(bd) = GetFullYear(now) - call.selectedYear + 1
            /\ \A i \in 1..Len(bd) :
                  /\ bd[i].year = call.selectedYear + i - 1
                  /\ bd[i].cumulativeUnits = r.totalUnits
                  /\ bd[i].cumulativeInvested = R(call.amount)
                  /\ i = 1 => bd[i].invested # Zero /\ bd[i].units # Zero
                  /\ i > 1 => bd[i].invested = Zero /\ bd[i].units = Zero

\* a lump-sum result whose breakdown spans more than one calendar year
C11_Witness ==
    /\ IsOneTimeResult
    /\ call.amount > 0
    /\ Len(call.result.yearlyBreakdown) >= 2
    /\ call.result.yearlyBreakdown[2].invested = Zero

\* C12: every result record of the historical simulation has returns =
\* currentValue - totalInvested, isProfit = (returns >= 0), and
\* returnsPercentage = returns / totalInvested * 100 when totalInvested is
\* not 0 and 0 when it is 0.
C12_ResultRecord ==
    (IsPast \/ IsApi) =>
        LET r == call.result
        IN  /\ r.returns = RSub(r.currentValue, r.totalInvested)
            /\ r.isProfit = RGe(r.returns, Zero)
            /\ r.returnsPercentage =
                  IF r.totalInvested = Zero THEN Zero
                  ELSE RMul(RDiv(r.returns, r.totalInvested), Hundred)

-----------------------------------------------------------------------------
(* Malformed records *)

\* the series without its malformed records
RECURSIVE WellFormed(_)
WellFormed(data) ==
    IF data = <<>> THEN <<>>
    ELSE IF IsMalformed(Head(data)) THEN WellFormed(Tail(data))
         ELSE <<Head(data)>> \o WellFormed(Tail(data))

\* the fields of a result record that the code returns
Outcome(r) ==
    IF r = Null THEN Null
    ELSE [totalInvested |-> r.totalInvested, currentValue |-> r.currentValue,
          totalUnits |-> r.totalUnits, returns |-> r.returns,
          returnsPercentage |-> r.returnsPercentage, isProfit |-> r.isProfit,
          yearlyBreakdown |-> r.yearlyBreakdown]

HasNaN(r) ==
    /\ r # Null
    /\ \/ \E f \in {"totalInvested", "currentValue", "totalUnits", "returns", "returnsPercentage"} :
              IsNaN(r[f])
       \/ \E i \in 1..Len(r.yearlyBreakdown) :
              \E f \in {"invested", "cumulativeInvested", "units", "cumulativeUnits", "value",
                        "returns", "returnsPercent", "endYearNav"} :
                  IsNaN(r.yearlyBreakdown[i][f])

IsPastCall == call # Null /\ call.fn = "PastAnalysis"

\* C13: when one record of the series has an unparsable date or a
\* non-numeric value, the result of the historical simulation equals the
\* result computed on the series without that record, and none of its
\* fields is not-a-number.
C13_MalformedExcluded ==
    IsPastCall =>
        /\ Outcome(call.result) =
              Outcome(PastResult(WellFormed(navData), call.investmentType, call.amount,
                                 call.selectedYear, call.selectedMonth,
                                 call.stepUpPercent, now))
        /\ ~HasNaN(call.result)

-----------------------------------------------------------------------------
(* Properties of the projection *)

IsProjection == call # Null /\ call.fn = "FutureProjection"

\* the parameters lie outside the valid domain: amount not positive, years
\* outside 1..40, or a step-up percent outside 0..100
InvalidParameters ==
    \/ call.amount <= 0
    \/ call.investmentType = "stepup" /\ call.stepUpPercent \notin 0..100
    \/ IsProjection /\ call.years \notin 1..40

\* C14: the historical simulation and the projection reject parameters
\* outside the valid domain (amount zero or negative, years zero, negative
\* or above 40, step-up percent outside 0..100) and produce no result.
C14_InvalidRejected ==
    ((IsProjection \/ IsPastCall) /\ InvalidParameters) => call.result = Null

\* C15: the regular-contribution projection with an expected annual return
\* of 0 returns a result with futureValue = amount * months, totalInvested =
\* amount * months and returns = 0.
C15_ZeroRateLimit ==
    (IsProjection /\ call.investmentType = "sip" /\ call.expectedReturn = 0
        /\ call.amount > 0 /\ call.years >= 1) =>
        /\ call.result # Null
        /\ call.result.futureValue = R(call.amount * call.years * 12)
        /\ call.result.totalInvested = R(call.amount * call.years * 12)
        /\ call.result.returns = Zero

ValidProjection ==
    IsProjection /\ call.amount > 0 /\ call.years >= 1 /\ call.expectedReturn > 0

\* C18: the step-up projection with a step-up percent of 0 returns the same
\* totalInvested and the same futureValue as the regular-contribution
\* projection for the same amount, years and annual return (amount > 0,
\* years >= 1, annual return > 0).
C18_StepUpZeroIsRegular ==
    (ValidProjection /\ call.investmentType = "stepup" /\ call.stepUpPercent = 0) =>
        LET regular == FutureResult("sip", call.amount, call.years, call.expectedReturn, 0)
        IN  /\ call.result # Null
            /\ regular # Null
            /\ call.result.totalInvested = regular.totalInvested
            /\ call.result.futureValue = regular.futureValue

\* a step-up projection with step-up 0 over more than one year
C18_Witness ==
    /\ ValidProjection
    /\ call.investmentType = "stepup"
    /\ call.stepUpPercent = 0
    /\ call.years = 2
    /\ call.result # Null
    /\ RGt(call.result.futureValue, call.result.totalInvested)

\* amount * ((1 + r)^n - 1) / r * (1 + r), r = annualReturn / 1200
AnnuityDue(amount, annualReturn, n) ==
    LET r == RDiv(R(annualReturn), R(1200))
        growth == RPow(RAdd(R(1), r), n)
    IN  RMul(RDiv(RMul(R(amount), RSub(growth, R(1))), r), RAdd(R(1), r))

\* C19: for amount > 0, years >= 1 and annual return > 0 the
\* regular-contribution projection returns totalInvested = amount * 12 *
\* years and futureValue = amount * ((1 + r)^n - 1) / r * (1 + r) with r =
\* annualReturn / 1200 and n = 12 * years, and futureValue is strictly
\* greater than totalInvested.
C19_RegularProjection ==
    (ValidProjection /\ call.investmentType = "sip") =>
        /\ call.result # Null
        /\ call.result.totalInvested = R(call.amount * 12 * call.years)
        /\ call.result.futureValue =
              AnnuityDue(call.amount, call.expectedReturn, 12 * call.years)
        /\ RGt(call.result.futureValue, call.result.totalInvested)

\* the projection of 5000 a month over 10 years at 12 %
IsRegularExample ==
    /\ call # Null
    /\ call.fn = "FutureProjectionWide"
    /\ call.investmentType = "sip"
    /\ call.amount = 5000 /\ call.years = 10 /\ call.expectedReturn = 12

\* C19 for amount = 5000, years = 10, 12 %: totalInvested = 600000 and
\* futureValue is strictly greater than totalInvested.
C19_RegularExample ==
    IsRegularExample =>
        /\ call.result # Null
        /\ call.result.totalInvested = R(600000)
        /\ ~call.result.futureValue.neg
        /\ BigLess(BigMulSmall(call.result.futureValue.den, 600000),
                   call.result.futureValue.num)

\* C19, the general statement and the example
C19_Regular == C19_RegularProjection /\ C19_RegularExample

\* a regular-contribution projection over two years with a positive return
C19_Witness ==
    /\ ValidProjection
    /\ call.investmentType = "sip"
    /\ call.years = 2
    /\ call.result # Null
    /\ call.result.totalInvested = R(24 * call.amount)
    /\ call.result.isProfit

\* the lump-sum projection of 100000 over 5 years at 10 %
IsLumpSumExample ==
    /\ call # Null
    /\ call.fn = "FutureProjectionWide"
    /\ call.investmentType = "onetime"
    /\ call.amount = 100000 /\ call.years = 5 /\ call.expectedReturn = 10

\* w lies within pct percent of the natural number n
WithinPercent(w, n, pct) ==
    /\ ~w.neg
    /\ ~BigLess(BigMulSmall(w.num, 100), BigMulSmall(BigMulSmall(w.den, n), 100 - pct))
    /\ ~BigLess(BigMulSmall(BigMulSmall(w.den, n), 100 + pct), BigMulSmall(w.num, 100))

-----------------------------------------------------------------------------
(* Properties of the trailing returns *)

IsChart == call # Null /\ call.fn = "periodReturns"

\* C16: the trailing-return computation yields none for a window whose
\* starting valuation is 0, and wherever it yields a value the starting
\* valuation used as divisor is not 0.
C16_ZeroStartIsNone ==
    (IsChart /\ navData # <<>>) =>
        \A period \in TIME_PERIODS :
            LET start == PeriodStart(navData, period, now)
                entry == call.result[period.key]
            IN  /\ (start # Null /\ parseFloat(start.nav) = Zero) => entry = Null
                /\ entry # Null => entry.startNav # Zero /\ ~IsNaN(entry.change)

\* a series for which one window starts at the valuation 0 and yields none
\* while another window yields a value
C16_Witness ==
    /\ IsChart
    /\ navData # <<>>
    /\ \E period \in TIME_PERIODS :
          /\ parseFloat(PeriodStart(navData, period, now).nav) = Zero
          /\ call.result[period.key] = Null
    /\ \E k \in PeriodKeys : call.result[k] # Null

\* the change and its sign for a start and a latest value
ExpectedReturn(startValue, latestValue) ==
    IF RGt(R(startValue), Zero)
    THEN LET change == RMul(RDiv(RSub(R(latestValue), R(startValue)), R(startValue)), Hundred)
         IN  [change |-> change, isPositive |-> RGe(change, Zero)]
    ELSE Null

ShownReturn(entry) ==
    IF entry = Null THEN Null ELSE [change |-> entry.change, isPositive |-> entry.isPositive]

\* C17: for the ALL window the trailing return takes as start the value of
\* the record with the lowest date and as latest the value of the record
\* with the highest date, whatever the order of the input; the series
\* [{1 Jan 2020, 10}, {1 Jan 2023, 20}] in that order yields
\* changePercent = 100 and isPositive = true.
C17_AllWindowByDate ==
    (IsChart /\ navData # <<>>) =>
        /\ \E lo \in Entries(navData), hi \in Entries(navData) :
              /\ parseNavDate(lo.date) = MinDate(navData)
              /\ parseNavDate(hi.date) = MaxDate(navData)
              /\ ShownReturn(call.result["ALL"]) = ExpectedReturn(lo.nav, hi.nav)
        /\ navData = << [date |-> <<1, 1, MinYear - 3>>, nav |-> 10],
                        [date |-> <<1, 1, MinYear>>, nav |-> 20] >> =>
              ShownReturn(call.result["ALL"]) = [change |-> Hundred, isPositive |-> TRUE]

-----------------------------------------------------------------------------
(* The historical simulation as a function of its arguments *)

\* the figures of a result, without the trace of the loop
PastFigures(r) ==
    IF r = Null THEN Null
    ELSE [f \in DOMAIN r \ {"events"} |-> r[f]]

\* C21: the result of the historical simulation is determined by its explicit
\* arguments (series, amount, start year-month, investment type, step-up
\* percent): a second invocation with the same arguments, at whatever reading
\* of the clock, returns the same result.
C21_ArgumentsOnly ==
    IsPastCall =>
        \A today \in NowSet :
            PastFigures(PastResult(navData, call.investmentType, call.amount,
                                   call.selectedYear, call.selectedMonth,
                                   call.stepUpPercent, today))
                = PastFigures(call.result)

\* C23: in step-up mode the amount stays unchanged for 12 consecutive
\* monthly contributions and is raised by the step-up percentage after each
\* full 12 contributions, the first raise coming at the 13th contribution,
\* for every start month.
C23_StepUpEveryTwelve ==
    (IsPast /\ call.investmentType = "stepup") =>
        LET ev == call.result.events
        IN  \A i \in 1..Len(ev) :
                ev[i].amount = CompoundAmount(call.amount, call.stepUpPercent,
                                              (i - 1) \div MonthsPerYear)

-----------------------------------------------------------------------------
(* Termination of the contribution loop *)

\* C26: the month-stepping loop terminates for every start and end date: it
\* makes no pass when the start is after the end, otherwise at most (number
\* of calendar months from start to end) + 1 passes, and every pass moves
\* the current date strictly forward.
C26_LoopBounded ==
    IsSchedule =>
        LET ev == ScheduleEvents
        IN  /\ ScheduleStart > ScheduleEnd => ev = <<>>
            /\ ScheduleStart <= ScheduleEnd =>
                  Len(ev) <= MonthIdx(ScheduleEnd) - MonthIdx(ScheduleStart) + 1
            /\ \A i \in 1..Len(ev) :
                  /\ ev[i].date < SetMonth(ev[i].date, GetMonth(ev[i].date) + 1)
                  /\ i < Len(ev) =>
                        ev[i + 1].date = SetMonth(ev[i].date, GetMonth(ev[i].date) + 1)

\* a run from the 31st of a month that makes more than twelve passes, fewer
\* than the bound because a short month is stepped over
C26_Witness ==
    /\ IsApi
    /\ GetDate(call.startDate) = 31
    /\ call.startDate <= call.endDate
    /\ Len(call.result.events) > 12
    /\ Len(call.result.events) < MonthIdx(call.endDate) - MonthIdx(call.startDate) + 1

-----------------------------------------------------------------------------
(* The last year slice and the totals *)

\* C29: in every schedule-mode result with at least one year slice the last
\* slice's cumulativeInvested equals totalInvested and its cumulativeUnits
\* equals totalUnits; when the last slice is that of the current calendar
\* year, its value, returns and returnsPercent equal the result's
\* currentValue, returns and returnsPercentage.
C29_LastSliceIsTotal ==
    (IsPastSchedule /\ call.result.yearlyBreakdown # <<>>) =>
        LET r == call.result
            last == r.yearlyBreakdown[Len(r.yearlyBreakdown)]
        IN  /\ last.cumulativeInvested = r.totalInvested
            /\ last.cumulativeUnits = r.totalUnits
            /\ last.year = GetFullYear(now) =>
                  /\ last.value = r.currentValue
                  /\ last.returns = r.returns
                  /\ last.returnsPercent = r.returnsPercentage

\* a run over three calendar years, the last of them the current one, that
\* shows a gain, on a series whose first record is not the one nearest to
\* the end of the current year
C29_Witness ==
    /\ IsPastSchedule
    /\ call.amount > 0
    /\ Len(call.result.yearlyBreakdown) = 3
    /\ call.result.yearlyBreakdown[3].year = GetFullYear(now)
    /\ RGt(call.result.returns, Zero)
    /\ call.result.yearlyBreakdown[3].returnsPercent = call.result.returnsPercentage
    /\ findNearestNav(navData, MkDate(GetFullYear(now), 11, 31, 0)) # navData[1]

-----------------------------------------------------------------------------
(* calculateSipReturns and the SIP branch of the calculator *)

\* the series is supplied newest-first
NewestFirst(data) ==
    \A i \in 1..(Len(data) - 1) : parseNavDate(data[i].date) >= parseNavDate(data[i + 1].date)

\* the three totals the two computations have in common
SipTotals(r) ==
    [totalInvested |-> r.totalInvested, totalUnits |-> r.totalUnits,
     currentValue |-> r.currentValue]

\* C30: for the same series supplied newest-first, the same monthly amount,
\* the same start on day 1 of a month and the same end date,
\* calculateSipReturns and the plain-SIP branch of the historical calculator
\* return the same totalInvested, totalUnits and currentValue, also when a
\* contribution date is equally distant from two records.
C30_SameTotals ==
    (/\ IsApi
     /\ navData # <<>>
     /\ NewestFirst(navData)
     /\ call.startDate = MkDate(GetFullYear(call.startDate), GetMonth(call.startDate), 1, 0)
     /\ call.endDate = now) =>
        SipTotals(call.result)
            = SipTotals(PastResult(navData, "sip", call.monthlyAmount,
                                   GetFullYear(call.startDate),
                                   GetMonth(call.startDate) + 1, 10, now))

-----------------------------------------------------------------------------
(* The step-up projection, contribution by contribution *)

\* amount * (1 + stepUpPercent/100)^y, the amount of year y
YearAmount(amount, stepUpPercent, y) ==
    RMul(R(amount), RPow(RDiv(R(100 + stepUpPercent), R(100)), y))

\* a contribution after it has compounded for its months at the monthly rate
Compounded(c, annualReturn) ==
    LET growth == RPow(RAdd(R(1), RDiv(R(annualReturn), R(1200))), c.monthsToGrow)
    IN  IF IsNaN(growth) THEN NaN ELSE RMul(c.amount, growth)

\* the sum of the compounded contributions cs[lo..hi], by halves, each half
\* evaluated before the two are added
RECURSIVE SumCompounded(_, _, _, _)
SumCompounded(cs, lo, hi, annualReturn) ==
    IF lo > hi THEN Zero
    ELSE IF lo = hi THEN Compounded(cs[lo], annualReturn)
    ELSE LET mid == (lo + hi) \div 2
             left == SumCompounded(cs, lo, mid, annualReturn)
             right == SumCompounded(cs, mid + 1, hi, annualReturn)
         IN  IF IsNaN(left) \/ IsNaN(right) THEN NaN ELSE RAdd(left, right)

\* the sum of the amounts of cs[lo..hi], in the same way
RECURSIVE SumAmounts(_, _, _)
SumAmounts(cs, lo, hi) ==
    IF lo > hi THEN Zero
    ELSE IF lo = hi THEN cs[lo].amount
    ELSE LET mid == (lo + hi) \div 2
             left == SumAmounts(cs, lo, mid)
             right == SumAmounts(cs, mid + 1, hi)
         IN  IF IsNaN(left) \/ IsNaN(right) THEN NaN ELSE RAdd(left, right)

IsStepUpProjection ==
    /\ IsProjection
    /\ call.investmentType = "stepup"
    /\ call.result # Null
    /\ call.years >= 1

\* C25: the step-up projection makes, for each year y in 0..years-1 and each
\* month m in 0..11, one contribution of amount * (1 + stepUpPercent/100)^y
\* that compounds for (years - y) * 12 - m months at the monthly rate;
\* futureValue is the sum of these 12 * years compounded contributions,
\* totalInvested the sum of the uncompounded ones, and the last contribution
\* compounds for exactly 1 month.
C25_StepUpProjection ==
    IsStepUpProjection =>
        LET cs == call.result.contributions
        IN  /\ Len(cs) = MonthsPerYear * call.years
            /\ \A y \in 0..(call.years - 1), m \in 0..(MonthsPerYear - 1) :
                  LET c == cs[y * MonthsPerYear + m + 1]
                  IN  /\ c.amount = YearAmount(call.amount, call.stepUpPercent, y)
                      /\ c.monthsToGrow = (call.years - y) * MonthsPerYear - m
            /\ call.result.futureValue = SumCompounded(cs, 1, Len(cs), call.expectedReturn)
            /\ call.result.totalInvested = SumAmounts(cs, 1, Len(cs))
            /\ cs[Len(cs)].monthsToGrow = 1

\* a projection over two years with a raise between them
C25_Witness ==
    /\ IsStepUpProjection
    /\ call.amount > 0
    /\ call.years = 2
    /\ call.stepUpPercent = 10
    /\ Len(call.result.contributions) = 24
    /\ RLt(call.result.contributions[12].amount, call.result.contributions[13].amount)
    /\ RGt(call.result.futureValue, call.result.totalInvested)

-----------------------------------------------------------------------------
(* The trailing return of a finite window *)

\* the date `months` calendar months before today: the same day of the
\* month, or the last day of a shorter month
MonthsBefore(today, months) == ClippedDate(today, MonthIdx(today) - months)

\* the records at minimum distance from the target
NearestRecords(data, target) ==
    { r \in Entries(data) : \A e \in Entries(data) : Dist(r, target) <= Dist(e, target) }

\* the entry of a window for a start record and a latest value
WindowReturn(start, latest) ==
    IF RGt(parseFloat(start.nav), Zero)
    THEN LET change == RMul(RDiv(RSub(latest, parseFloat(start.nav)),
                                 parseFloat(start.nav)), Hundred)
         IN  [change |-> change, isPositive |-> ~RLt(latest, parseFloat(start.nav))]
    ELSE Null

\* C24: for a finite look-back window of m months on a non-empty series the
\* trailing return takes as start the value of the record nearest to the
\* date m calendar months before today and yields
\* changePercent = (latest - start) / start * 100 with
\* isPositive = (changePercent >= 0), which is false exactly when
\* latest < start (no entry for a start of 0, as C16 has it).
C24_FiniteWindow ==
    (IsChart /\ navData # <<>>) =>
        \A period \in TIME_PERIODS :
            "months" \in DOMAIN period =>
                \E start \in NearestRecords(navData, MonthsBefore(now, period.months)),
                   latest \in LatestValues(navData) :
                    /\ ShownReturn(call.result[period.key]) = WindowReturn(start, latest)
                    /\ call.result[period.key] # Null =>
                          call.result[period.key].isPositive
                              = RGe(call.result[period.key].change, Zero)

-----------------------------------------------------------------------------
(* The application: selection of a fund, loading of its details, and the   *)
(* start-month selection of the calculator shown for them                  *)

MaxSelections == 3

\* the funds of the list (FundBasic, by scheme code)
Funds == [schemeCode : {101, 102, 103}]

\* the NAV history the API serves for a fund, newest first
FundData(schemeCode) ==
    CASE schemeCode = 101 ->
            << [date |-> <<15, 3, MaxYear>>, nav |-> 20],
               [date |-> <<20, 2, MaxYear>>, nav |-> 10] >>
      [] schemeCode = 102 ->
            << [date |-> <<15, 3, MaxYear>>, nav |-> 20],
               [date |-> <<31, 12, MinYear>>, nav |-> 10] >>
      [] OTHER -> <<>>

\* the value getFundDetails resolves to
DetailsOf(schemeCode) == [schemeCode |-> schemeCode, data |-> FundData(schemeCode)]

\* FundDetailsPanel renders the details, and with them the calculator
Displayed == ~isLoadingDetails /\ error = Null /\ fundDetails # Null

\* dateInfo: the years of the series, ascending, and the months of each year
dateInfo(data) ==
    LET dates == { parseNavDate(data[i].date) : i \in 1..Len(data) }
        yearSet == { GetFullYear(d) : d \in dates }
    IN  [years |-> SortedSeq(yearSet),
         monthsByYear |->
            [y \in yearSet |->
                SortedSeq({ GetMonth(d) + 1 : d \in { x \in dates : GetFullYear(x) = y } })]]

\* dateInfo.monthsByYear.get(year) || fallback
MonthsOf(info, year, fallback) ==
    IF year \in DOMAIN info.monthsByYear THEN info.monthsByYear[year] ELSE fallback

\* year and month (1-12) of new Date() after setFullYear(getFullYear() - yearsAgo);
\* 29 February becomes 1 March in a year that is not a leap year
YearsAgo(today, yearsAgo) ==
    LET year == GetFullYear(today) - yearsAgo
        leapDay == GetMonth(today) = 1 /\ GetDate(today) = 29
    IN  [year |-> year,
         month |-> IF leapDay /\ ~IsLeap(year) THEN 3 ELSE GetMonth(today) + 1]

\* the loop that finds the closest available year: the last year that is not
\* after the target, or the first year
RECURSIVE ClosestYear(_, _, _, _)
ClosestYear(years, i, targetYear, chosen) ==
    IF i > Len(years) THEN chosen
    ELSE ClosestYear(years, i + 1, targetYear,
                     IF years[i] <= targetYear THEN years[i] ELSE chosen)

\* months.find(m => m >= targetMonth) || months[months.length - 1]
ClosestMonth(months, targetMonth) ==
    LET later == { i \in 1..Len(months) : months[i] >= targetMonth }
    IN  IF later # {}
        THEN months[CHOOSE i \in later : \A j \in later : i <= j]
        ELSE months[Len(months)]

\* the default date: 3 years ago or the earliest available
DefaultSelection(info, today) ==
    LET target == YearsAgo(today, 3)
        defaultYear == ClosestYear(info.years, 1, target.year, info.years[1])
        availableMonths == MonthsOf(info, defaultYear, <<1>>)
    IN  [year |-> defaultYear,
         month |-> IF defaultYear = target.year
                   THEN ClosestMonth(availableMonths, target.month)
                   ELSE availableMonths[1]]

\* setPresetFromYearsAgo
PresetSelection(info, today, yearsAgo) ==
    LET target == YearsAgo(today, yearsAgo)
        chosenYear == ClosestYear(info.years, 1, target.year, info.years[1])
        months == MonthsOf(info, chosenYear, <<1>>)
    IN  [year |-> chosenYear,
         month |-> IF chosenYear = target.year
                   THEN ClosestMonth(months, target.month)
                   ELSE months[Len(months)]]

\* handleYearChange
YearChange(info, year, month) ==
    LET availableMonths == MonthsOf(info, year, <<1>>)
    IN  [year |-> year,
         month |-> IF \E i \in 1..Len(availableMonths) : availableMonths[i] = month
                   THEN month ELSE availableMonths[1]]

\* the selection once the default-date memo has run for the series
Settled(data, sel, today) ==
    IF Len(dateInfo(data).years) > 0 /\ sel.year = 0
    THEN DefaultSelection(dateInfo(data), today)
    ELSE sel

\* the result memo of a render of PastAnalysis with its initial investment
\* type, amount and step-up percent
Rendered(data, sel, today) ==
    [fn |-> "PastAnalysis",
     investmentType |-> "sip",
     amount |-> 5000,
     selectedYear |-> sel.year,
     selectedMonth |-> sel.month,
     stepUpPercent |-> 10,
     result |-> PastResult(data, "sip", 5000, sel.year, sel.month, 10, today)]

PresetYears == {1, 2, 3, 5, 10}

InitApp ==
    /\ navData = <<>>
    /\ now \in NowSet
    /\ call = Null
    /\ AppInit

\* onSelectFund and the effect it triggers: loadDetails up to its await.
\* The panel turns to the spinner, which unmounts the calculator.
SelectFund(fund) ==
    /\ requestCount < MaxSelections
    /\ fund # selectedFund
    /\ selectedFund' = fund
    /\ isLoadingDetails' = TRUE
    /\ error' = Null
    /\ requests' = requests \cup { [id |-> requestCount + 1, schemeCode |-> fund.schemeCode] }
    /\ requestCount' = requestCount + 1
    /\ selectedYear' = 0
    /\ selectedMonth' = 1
    /\ call' = Null
    /\ UNCHANGED <<navData, now, fundDetails>>

\* getFundDetails resolves: the rest of the try block and the finally block.
\* A calculator that is on screen stays mounted and keeps its state.
ResolveDetails(req) ==
    /\ req \in requests
    /\ requests' = requests \ {req}
    /\ fundDetails' = DetailsOf(req.schemeCode)
    /\ navData' = FundData(req.schemeCode)
    /\ isLoadingDetails' = FALSE
    /\ call' = Null
    /\ UNCHANGED <<now, selectedFund, error, requestCount, selectedYear, selectedMonth>>

\* getFundDetails rejects: the catch block and the finally block.  The panel
\* turns to the error card.  The error keeps the id of its request; the code
\* keeps the message only.
RejectDetails(req) ==
    /\ req \in requests
    /\ requests' = requests \ {req}
    /\ error' = [message |-> "Failed to load fund details. Please try again.",
                 request |-> req.id]
    /\ isLoadingDetails' = FALSE
    /\ selectedYear' = 0
    /\ selectedMonth' = 1
    /\ call' = Null
    /\ UNCHANGED <<navData, now, selectedFund, fundDetails, requestCount>>

\* the render of PastAnalysis that follows a change of its props or state:
\* the default-date memo, then the result memo
Render ==
    /\ Displayed
    /\ call = Null
    /\ \E sel \in { Settled(navData, [year |-> selectedYear, month |-> selectedMonth], now) } :
          /\ selectedYear' = sel.year
          /\ selectedMonth' = sel.month
          /\ call' = Rendered(navData, sel, now)
    /\ UNCHANGED <<navData, now, selectedFund, fundDetails, isLoadingDetails, error,
                   requests, requestCount>>

\* the year select of the rendered calculator
HandleYearChange(year) ==
    /\ Displayed
    /\ call # Null
    /\ \E i \in 1..Len(dateInfo(navData).years) : dateInfo(navData).years[i] = year
    /\ year # selectedYear
    /\ \E sel \in { YearChange(dateInfo(navData), year, selectedMonth) } :
          /\ selectedYear' = sel.year
          /\ selectedMonth' = sel.month
    /\ call' = Null
    /\ UNCHANGED <<navData, now, selectedFund, fundDetails, isLoadingDetails, error,
                   requests, requestCount>>

\* the month select, whose options are the months of the selected year
SetSelectedMonth(month) ==
    /\ Displayed
    /\ call # Null
    /\ LET availableMonths == MonthsOf(dateInfo(navData), selectedYear, <<>>)
       IN  \E i \in 1..Len(availableMonths) : availableMonths[i] = month
    /\ month # selectedMonth
    /\ selectedMonth' = month
    /\ call' = Null
    /\ UNCHANGED <<navData, now, selectedFund, fundDetails, isLoadingDetails, error,
                   requests, requestCount, selectedYear>>

\* an 'N years ago' pill, disabled when no year is at or before the target
SetPresetFromYearsAgo(yearsAgo) ==
    /\ Displayed
    /\ call # Null
    /\ \E i \in 1..Len(dateInfo(navData).years) :
          dateInfo(navData).years[i] <= GetFullYear(now) - yearsAgo
    /\ \E sel \in { PresetSelection(dateInfo(navData), now, yearsAgo) } :
          /\ selectedYear' = sel.year
          /\ selectedMonth' = sel.month
    /\ call' = Null
    /\ UNCHANGED <<navData, now, selectedFund, fundDetails, isLoadingDetails, error,
                   requests, requestCount>>

Completion == \E req \in requests : ResolveDetails(req) \/ RejectDetails(req)

NextApp ==
    \/ \E fund \in Funds : SelectFund(fund)
    \/ \E req \in requests : ResolveDetails(req)
    \/ \E req \in requests : RejectDetails(req)
    \/ Render
    \/ \E year \in MinYear..MaxYear : HandleYearChange(year)
    \/ \E month \in 1..MonthsPerYear : SetSelectedMonth(month)
    \/ \E yearsAgo \in PresetYears : SetPresetFromYearsAgo(yearsAgo)

SpecApp == InitApp /\ [][NextApp]_vars

\* every getFundDetails call settles in the end
SpecAppFair == SpecApp /\ WF_vars(Completion)

-----------------------------------------------------------------------------
(* Properties of the application *)

\* the year-months for which the series has a record
YearMonths(data) ==
    { <<GetFullYear(parseNavDate(e.date)), GetMonth(parseNavDate(e.date)) + 1>> :
        e \in Entries(data) }

\* C22: whenever the historical calculator computes a result, the selected
\* start (year, month) is a year-month for which the series currently
\* supplied has at least one record, after any sequence of default
\* selections, year changes, month changes, 'N years ago' presets and
\* replacements of the series by the details of another fund.
C22_StartHasRecord ==
    (IsPast /\ Displayed) =>
        <<call.selectedYear, call.selectedMonth>> \in YearMonths(navData)

\* C27: once no request is in flight, the details held are those of the
\* most recently selected fund, or the error shown is that of this fund's
\* own request; details or an error of an earlier selection do not remain.
C27_LatestSelectionShown ==
    (requests = {} /\ selectedFund # Null) =>
        \/ /\ error = Null
           /\ fundDetails # Null
           /\ fundDetails.schemeCode = selectedFund.schemeCode
        \/ /\ error # Null
           /\ error.request = requestCount

\* C28: isLoadingDetails is true in every state in which a fund-details
\* request is in flight, overlapping requests included, and it becomes
\* false in the end, once the last request has completed.
C28_LoadingWhileInFlight ==
    /\ [](requests # {} => isLoadingDetails)
    /\ isLoadingDetails ~> (requests = {} /\ ~isLoadingDetails)

====
